---- MODULE Spec2Model ----
(***************************************************************************)
(* node-search: a persistent full text search engine.                      *)
(*                                                                         *)
(* Two classes are modelled.                                               *)
(*   index.js      NodeSearch over a level key-value store (lines 171-461, *)
(*                 the class the module exports).  Its asynchronous        *)
(*                 methods are modelled one store operation per step.      *)
(*   index.bak.js  NodeSearch held in memory (synchronous methods, one     *)
(*                 action per method).                                     *)
(*                                                                         *)
(* JavaScript strings are sequences of one-character strings, so that      *)
(* JSON.stringify, Object.assign on a string and the tokenizer are         *)
(* computed and not assumed.                                               *)
(***************************************************************************)
EXTENDS Integers, Sequences, FiniteSets, TLC

\* ------------------------------------------------------------------------
\* Bounds of the model
\* ------------------------------------------------------------------------

\* public calls made on the index.js object in one behaviour
MaxCalls == 3

\* update() calls among them (every update multiplies the stored text)
MaxUpdates == 1

\* public calls in one behaviour in which store operations may fail
MaxFaultCalls == 2

\* store operations that fail with an I/O error in such a behaviour
MaxFaults == 1

\* methods called on the index.bak.js object in one behaviour
MaxMemCalls == 4

\* ------------------------------------------------------------------------
\* JavaScript values
\* ------------------------------------------------------------------------

\* null and undefined
Null == [t |-> "null"]

Undefined == [t |-> "undefined"]

\* a string value, s a sequence of characters
Str(s) == [t |-> "str", s |-> s]

\* a number value
Num(n) == [t |-> "num", n |-> n]

\* an object value: its own enumerable properties in enumeration order,
\* a sequence of [k |-> name, v |-> value]
Obj(props) == [t |-> "obj", props |-> props]

Keys(props) == {props[i].k : i \in 1..Len(props)}

\* props[name], for a name among Keys(props)
Prop(props, name) == props[CHOOSE i \in 1..Len(props) : props[i].k = name].v

RECURSIVE Concat(_)
\* the concatenation of a sequence of sequences
Concat(ss) ==
  IF ss = <<>> THEN <<>>
  ELSE IF Len(ss) = 1 THEN ss[1]
  ELSE LET h == Len(ss) \div 2
       IN Concat(SubSeq(ss, 1, h)) \o Concat(SubSeq(ss, h + 1, Len(ss)))

RECURSIVE Digits(_)
\* String(n) for a natural number n
Digits(n) == IF n < 10 THEN <<ToString(n)>> ELSE Digits(n \div 10) \o <<ToString(n % 10)>>

\* JSON.stringify's escape of one character of a string
Escape(c) == IF c = "\"" THEN <<"\\", "\"">> ELSE IF c = "\\" THEN <<"\\", "\\">> ELSE <<c>>

\* JSON.stringify of a string: quoted, its quotes and backslashes escaped
Quote(s) == <<"\"">> \o Concat([i \in 1..Len(s) |-> Escape(s[i])]) \o <<"\"">>

\* JSON.stringify of a property value (a string or a number)
StringifyValue(v) == IF v.t = "str" THEN Quote(v.s) ELSE Digits(v.n)

\* JSON.stringify of an object: {"k":v,...} in enumeration order
Stringify(props) ==
  <<"{">> \o
  Concat([i \in 1..Len(props) |->
            (IF i = 1 THEN <<>> ELSE <<",">>) \o Quote(props[i].k) \o <<":">>
              \o StringifyValue(props[i].v)]) \o
  <<"}">>

\* the own enumerable properties of a string: its characters under their indices
StringProps(s) == [i \in 1..Len(s) |-> [k |-> Digits(i - 1), v |-> Str(<<s[i]>>)]]

\* the own enumerable properties Object.assign copies from a source value
SourceProps(src) ==
  IF src.t = "str" THEN StringProps(src.s)
  ELSE IF src.t = "obj" THEN src.props
  ELSE <<>>

\* target after the properties src (of distinct names) were assigned to it one
\* by one: a known name keeps its place and takes the new value, new names are
\* appended in their order
AssignProps(target, src) ==
  [i \in 1..Len(target) |->
     IF target[i].k \in Keys(src)
     THEN [k |-> target[i].k, v |-> Prop(src, target[i].k)]
     ELSE target[i]]
  \o SelectSeq(src, LAMBDA p : p.k \notin Keys(target))

\* Object.assign({}, a, b)
ObjectAssign(a, b) == AssignProps(AssignProps(<<>>, SourceProps(a)), SourceProps(b))

\* ------------------------------------------------------------------------
\* Numbers the engine computes, kept symbolic
\* ------------------------------------------------------------------------

NaN == [t |-> "NaN"]

NegInfinity == [t |-> "-Infinity"]

\* Math.sqrt(n), n a positive count
Sqrt(n) == [t |-> "sqrt", of |-> n]

\* 1 / Math.sqrt(n), n a positive count
InvSqrt(n) == [t |-> "1/sqrt", of |-> n]

\* 1 + Math.log(n / d) for numbers n >= 0 and d >= 1
OnePlusLog(n, d) == IF n = 0 THEN NegInfinity ELSE [t |-> "1+ln", n |-> n, d |-> d]

\* a number inside JSON.stringify: NaN, the infinities and undefined become null
JSONNumber(x) == IF x \in {NaN, NegInfinity, Undefined} THEN Null ELSE x

DigitChars == {"0", "1", "2", "3", "4", "5", "6", "7", "8", "9"}

DigitValue(c) == CHOOSE n \in 0..9 : ToString(n) = c

RECURSIVE DigitsValue(_)
\* the natural number written by a non-empty sequence of digits
DigitsValue(s) ==
  IF Len(s) = 1 THEN DigitValue(s[1])
  ELSE 10 * DigitsValue(SubSeq(s, 1, Len(s) - 1)) + DigitValue(s[Len(s)])

\* ToNumber(v) of a value used as an operand of / : Num(n), or NaN
ToNumber(v) ==
  IF v.t = "num" THEN v
  ELSE IF v.t = "null" THEN Num(0)
  ELSE IF v.t = "str" /\ v.s = <<>> THEN Num(0)
  ELSE IF v.t = "str" /\ \A i \in 1..Len(v.s) : v.s[i] \in DigitChars
       THEN Num(DigitsValue(v.s))
  ELSE NaN

\* a + n where n is a number: addition of numbers, concatenation to a string
JsPlus(a, n) ==
  IF a.t = "num" THEN Num(a.n + n)
  ELSE IF a.t = "str" THEN Str(a.s \o Digits(n))
  ELSE NaN

\* whether a value is truthy
Truthy(v) ==
  CASE v.t = "null" -> FALSE
    [] v.t = "undefined" -> FALSE
    [] v.t = "NaN" -> FALSE
    [] v.t = "str" -> v.s # <<>>
    [] v.t = "num" -> v.n # 0
    [] OTHER -> TRUE

\* ------------------------------------------------------------------------
\* Tokenizer and stopwords (both classes)
\* ------------------------------------------------------------------------

RECURSIVE SplitFrom(_, _, _)
\* the words of s from position i on, cur being the word read so far
SplitFrom(s, i, cur) ==
  IF i > Len(s) THEN (IF cur = <<>> THEN <<>> ELSE <<cur>>)
  ELSE IF s[i] = " " THEN (IF cur = <<>> THEN <<>> ELSE <<cur>>) \o SplitFrom(s, i + 1, <<>>)
  ELSE SplitFrom(s, i + 1, Append(cur, s[i]))

\* nlp(string).terms().data().map(data => data.normal): the normalized terms of
\* a string, here the words of a lower-case text
tokenizeNormalize(string) == SplitFrom(string, 1, <<>>)

\* require('stopwords').english, as far as the modelled texts go
stopwords == {<<"a">>}

RECURSIVE CountOf(_, _)
\* the number of elements of sequence toks equal to term
CountOf(term, toks) ==
  IF toks = <<>> THEN 0
  ELSE (IF Head(toks) = term THEN 1 ELSE 0) + CountOf(term, Tail(toks))

termFrequency(term, tokenizedDocument) == Sqrt(CountOf(term, tokenizedDocument))

fieldLengthNormalization(tokenizedDocument) == InvSqrt(Len(tokenizedDocument))

\* ------------------------------------------------------------------------
\* Documents, queries and boosts the callers pass
\* ------------------------------------------------------------------------

FTitle == <<"t">>

FBody == <<"b">>

FId == <<"n">>

\* the documents added to the store: {n:1, t:"a c"}, {t:"c"}
Documents ==
  { << [k |-> FId, v |-> Num(1)], [k |-> FTitle, v |-> Str(<<"a", " ", "c">>)] >>,
    << [k |-> FTitle, v |-> Str(<<"c">>)] >> }

\* {t:"x"}, {n:2}
Partials ==
  { << [k |-> FTitle, v |-> Str(<<"x">>)] >>,
    << [k |-> FId, v |-> Num(2)] >> }

\* "", "c", "a", "v c", "c c", "z", "z c c"
Queries ==
  { <<>>, <<"c">>, <<"a">>, <<"v", " ", "c">>, <<"c", " ", "c">>, <<"z">>,
    <<"z", " ", "c", " ", "c">> }

FTags == <<"g">>

\* the documents added to the index held in memory:
\* {t:"c"}, {b:"v", t:"a c"}, {t:"v", g:"c c"}, {n:1, t:"z"}
MemDocuments ==
  { << [k |-> FTitle, v |-> Str(<<"c">>)] >>,
    << [k |-> FBody, v |-> Str(<<"v">>)], [k |-> FTitle, v |-> Str(<<"a", " ", "c">>)] >>,
    << [k |-> FTitle, v |-> Str(<<"v">>)], [k |-> FTags, v |-> Str(<<"c", " ", "c">>)] >>,
    << [k |-> FId, v |-> Num(1)], [k |-> FTitle, v |-> Str(<<"z">>)] >> }

\* {t:5}, {g:2}, {b:3, t:0}
BoostMaps ==
  { << [k |-> FTitle, v |-> 5] >>,
    << [k |-> FTags, v |-> 2] >>,
    << [k |-> FBody, v |-> 3], [k |-> FTitle, v |-> 0] >> }

\* ------------------------------------------------------------------------
\* index.js: state
\* ------------------------------------------------------------------------

VARIABLES
  store,          \* the level store: key -> value
  calls,          \* caller -> the public call it last made, with its position
  inserts,        \* the _invertedIndexInsert tasks in flight, oldest first
  faultsLeft,     \* store operations that may still fail with an I/O error
  callsLeft,      \* public calls that may still be made
  updatesLeft,    \* update() calls that may still be made
  completedAdds,  \* add() calls that have returned
  added,          \* the documents add() has written to the store
  deleted         \* identifiers of documents that delete() removed and no add() wrote since

storeVars ==
  <<store, calls, inserts, faultsLeft, callsLeft, updatesLeft, completedAdds, added, deleted>>

\* index.bak.js: state
VARIABLES
  documentStore,  \* documentId -> document
  invertedIndex,  \* token -> (documentId -> postings)
  fields,         \* field name -> field id
  fieldsCount,    \* the next field id
  fieldBoosts,    \* property name of the array -> weight
  memCallsLeft,   \* methods that may still be called
  observed,       \* the field names addDocument has met, in the order it met them
  requested,      \* field name -> the weight addFieldBoosts was last given for it
  found           \* what the last search was asked and returned, and the calls left then

memVars ==
  <<documentStore, invertedIndex, fields, fieldsCount, fieldBoosts, memCallsLeft,
    observed, requested, found>>

vars == <<storeVars, memVars>>

INVERTED_INDEX_KEY_PREFIX == "InvertedIndex"

DOCUMENT_STORE_KEY_PREFIX == "DocumentStore"

DOCUMENT_COUNT_KEY == <<"DocumentCount">>

\* `${DOCUMENT_STORE_KEY_PREFIX}:${documentId}`
DocumentKey(documentId) == <<DOCUMENT_STORE_KEY_PREFIX, documentId>>

\* `${INVERTED_INDEX_KEY_PREFIX}:${token}`
TokenKey(token) == <<INVERTED_INDEX_KEY_PREFIX, token>>

\* those who call the public methods; SeqCaller awaits each call before the next
Callers == {"p", "q"}

SeqCaller == "p"

Idle ==
  [op |-> "none", pc |-> "idle", document |-> <<>>, documentId |-> <<>>,
   partial |-> <<>>, local |-> Undefined, work |-> <<>>, result |-> Undefined,
   outcome |-> "none", failed |-> FALSE]

\* crypto.createHash('md5').update(JSON.stringify(document)).digest('hex'): the
\* digest is written as the text it digests (md5 taken as injective)
\* the digest of String(document), "[object Object]" for every document
generateDocumentIdOfToString(document) ==
  <<"[", "o", "b", "j", "e", "c", "t", " ", "O", "b", "j", "e", "c", "t", "]">>

generateDocumentId(document) == Stringify(document)

DocumentIds == {generateDocumentId(d) : d \in Documents}

\* ------------------------------------------------------------------------
\* index.js: the store's operations and their outcomes
\* ------------------------------------------------------------------------

CanFail == faultsLeft > 0

\* store.get(key): the value, a notFound error, or an I/O error
GetOutcomes(key) ==
  {IF key \in DOMAIN store
   THEN [err |-> "none", value |-> store[key]]
   ELSE [err |-> "notFound", value |-> Undefined]}
  \cup (IF CanFail THEN {[err |-> "io", value |-> Undefined]} ELSE {})

\* store.put(key, value) and store.del(key) with a defined value: done, or an I/O error
WriteOutcomes == {"none"} \cup (IF CanFail THEN {"io"} ELSE {})

\* store.put(key, undefined): the value is refused ("invalid"), or written as
\* the text String(undefined), depending on the version of level; or an I/O error
PutUndefinedOutcomes == {"invalid", "none"} \cup (IF CanFail THEN {"io"} ELSE {})

StringUndefined == Str(<<"u", "n", "d", "e", "f", "i", "n", "e", "d">>)

\* the value level writes for `value`
Written(value) == IF value = Undefined THEN StringUndefined ELSE value

PutOutcomes(value) == IF value = Undefined THEN PutUndefinedOutcomes ELSE WriteOutcomes

StorePut(key, value) == (key :> Written(value)) @@ store

StoreDel(key) == [k \in DOMAIN store \ {key} |-> store[k]]

FaultsLeft(err) == IF err = "io" THEN faultsLeft - 1 ELSE faultsLeft

\* the result of a getter that returns null on notFound and logs any other
\* error (get, _getNumDocuments, _invertedIndexGetToken)
GetterResult(r) ==
  IF r.err = "none" THEN r.value ELSE IF r.err = "notFound" THEN Null ELSE Undefined

\* ------------------------------------------------------------------------
\* index.js: the indexing pipeline
\* ------------------------------------------------------------------------

\* _tokenizeFields(document): the string fields, tokenized
tokenizeFieldsOfStrings(document) ==
  LET strs == SelectSeq(document, LAMBDA p : p.v.t = "str")
  IN [i \in 1..Len(strs) |-> [k |-> strs[i].k, toks |-> tokenizeNormalize(strs[i].v.s)]]

\* the passes of a loop that indexes the stopwords too
IndexWorkWithStopwords(document) ==
  LET td == tokenizeFieldsOfStrings(document)
      fieldWork(f) == [i \in 1..Len(f.toks) |-> [field |-> f.k, token |-> f.toks[i], toks |-> f.toks]]
  IN Concat([i \in 1..Len(td) |-> fieldWork(td[i])])

\* the passes of _indexDocument's inner loop that index a token, in order:
\* for (field in tokenizedDocument) for (token of ...) if (!stopwords.includes(token))
IndexWork(document) ==
  LET td == tokenizeFieldsOfStrings(document)
      fieldWork(f) ==
        LET kept == SelectSeq(f.toks, LAMBDA tk : tk \notin stopwords)
        IN [i \in 1..Len(kept) |-> [field |-> f.k, token |-> kept[i], toks |-> f.toks]]
  IN Concat([i \in 1..Len(td) |-> fieldWork(td[i])])

\* _inverseDocumentFrequency(term) from what its two reads returned
inverseDocumentFrequency(numDocuments, documentsContainTermRaw) ==
  IF documentsContainTermRaw = Undefined
  THEN Undefined    \* JSON.parse(undefined) throws; the catch logs it
  ELSE LET numDocumentsContainTerm ==
             IF documentsContainTermRaw = Null THEN 0
             ELSE Undefined    \* the length of a plain object
           n == ToNumber(numDocuments)
       IN IF documentsContainTermRaw # Null \/ n = NaN THEN NaN
          ELSE OnePlusLog(n.n, numDocumentsContainTerm + 1)

\* the record _invertedIndexInsert writes, from the record it read; a record is
\* a function documentId -> postings standing for its JSON text
InsertedRecord(record, documentId, posting) ==
  LET jp == [i \in 1..Len(posting) |-> JSONNumber(posting[i])]
  IN IF Truthy(record)
     THEN IF documentId \in DOMAIN record.rec
          THEN [t |-> "json",
                rec |-> [record.rec EXCEPT ![documentId] = Append(@, jp)]]
          ELSE [t |-> "json", rec |-> (documentId :> <<jp>>) @@ record.rec]
     ELSE [t |-> "json", rec |-> (documentId :> <<jp>>)]

\* ------------------------------------------------------------------------
\* index.js: the public methods, one store operation per step
\* ------------------------------------------------------------------------

CanCall(c) == calls[c].pc \in {"idle", "done"} /\ callsLeft > 0

\* the call has returned: every public method catches what its store
\* operations throw, so its promise resolves, with `value`.  Of its locals the
\* record keeps what update read
Returned(call, value) ==
  [Idle EXCEPT !.op = call.op, !.documentId = call.documentId, !.partial = call.partial,
               !.local = IF call.op = "update" THEN call.local ELSE Undefined,
               !.failed = call.failed, !.pc = "done", !.result = value,
               !.outcome = "resolved"]

\* add(document): the identifier is computed and the document's put issued
Add(c, document) ==
  /\ CanCall(c)
  /\ calls' = [calls EXCEPT ![c] =
       [Idle EXCEPT !.op = "add", !.pc = "putDocument", !.document = document,
                    !.documentId = generateDocumentId(document)]]
  /\ callsLeft' = callsLeft - 1
  /\ UNCHANGED <<store, inserts, faultsLeft, updatesLeft, completedAdds, added, deleted>>
  /\ UNCHANGED memVars

\* add: store.put of the document ends; an error is logged and add returns
AddPutDocument(c) ==
  /\ calls[c].op = "add" /\ calls[c].pc = "putDocument"
  /\ \E err \in WriteOutcomes :
       /\ faultsLeft' = FaultsLeft(err)
       /\ IF err = "none"
          THEN /\ store' = StorePut(DocumentKey(calls[c].documentId),
                                    Str(Stringify(calls[c].document)))
               /\ calls' = [calls EXCEPT ![c].pc = "getNumDocuments"]
               /\ added' = added \cup {calls[c].document}
               /\ deleted' = deleted \ {calls[c].documentId}
               /\ UNCHANGED completedAdds
          ELSE /\ calls' = [calls EXCEPT ![c] = Returned([@ EXCEPT !.failed = TRUE], Undefined)]
               /\ completedAdds' = completedAdds + 1
               /\ UNCHANGED <<store, added, deleted>>
  /\ UNCHANGED <<inserts, callsLeft, updatesLeft>>
  /\ UNCHANGED memVars

\* _incrementNumDocuments: _getNumDocuments ends; documentCount = stored || 0
IncrementGetNumDocuments(c) ==
  /\ calls[c].op = "add" /\ calls[c].pc = "getNumDocuments"
  /\ \E r \in GetOutcomes(DOCUMENT_COUNT_KEY) :
       /\ faultsLeft' = FaultsLeft(r.err)
       /\ calls' = [calls EXCEPT ![c].pc = "setNumDocuments",
                                 ![c].failed = @ \/ r.err = "io",
                                 ![c].local = IF Truthy(GetterResult(r))
                                              THEN GetterResult(r) ELSE Num(0)]
  /\ UNCHANGED <<store, inserts, callsLeft, updatesLeft, completedAdds, added, deleted>>
  /\ UNCHANGED memVars

\* _setNumDocuments(field, num): this.store.put(DOCUMENT_COUNT_KEY, num)
setNumDocuments(field, num) == num

\* the passes left to a call once `work` is what remains of them
AfterIncrement(call) ==
  IF IndexWork(call.document) = <<>>
  THEN Returned(call, Undefined)
  ELSE [call EXCEPT !.pc = "idfNumDocuments", !.work = IndexWork(call.document)]

\* _incrementNumDocuments: this._setNumDocuments(documentCount + num) ends, its
\* one argument bound to `field`; an error is logged.  Then _indexDocument starts
IncrementSetNumDocuments(c) ==
  /\ calls[c].op = "add" /\ calls[c].pc = "setNumDocuments"
  /\ LET value == setNumDocuments(JsPlus(calls[c].local, 1), Undefined)
     IN \E err \in PutOutcomes(value) :
          /\ faultsLeft' = FaultsLeft(err)
          /\ store' = IF err = "none" THEN StorePut(DOCUMENT_COUNT_KEY, value) ELSE store
          /\ calls' = [calls EXCEPT ![c] =
                         AfterIncrement([@ EXCEPT !.failed = @ \/ err = "io"])]
          /\ completedAdds' = IF IndexWork(calls[c].document) = <<>>
                              THEN completedAdds + 1 ELSE completedAdds
  /\ UNCHANGED <<inserts, callsLeft, updatesLeft, added, deleted>>
  /\ UNCHANGED memVars

\* _inverseDocumentFrequency: _getNumDocuments ends
IdfGetNumDocuments(c) ==
  /\ calls[c].op = "add" /\ calls[c].pc = "idfNumDocuments"
  /\ \E r \in GetOutcomes(DOCUMENT_COUNT_KEY) :
       /\ faultsLeft' = FaultsLeft(r.err)
       /\ calls' = [calls EXCEPT ![c].pc = "idfToken",
                                 ![c].failed = @ \/ r.err = "io",
                                 ![c].local = GetterResult(r)]
  /\ UNCHANGED <<store, inserts, callsLeft, updatesLeft, completedAdds, added, deleted>>
  /\ UNCHANGED memVars

\* the posting _indexDocument builds for a pass
Posting(w, idf) == <<termFrequency(w.token, w.toks), idf, fieldLengthNormalization(w.toks)>>

\* _inverseDocumentFrequency: _invertedIndexGetToken ends and the idf is
\* computed; _indexDocument builds the posting and calls _invertedIndexInsert
\* without awaiting it, then goes on to the next pass or returns, and add with it
IdfGetToken(c) ==
  /\ calls[c].op = "add" /\ calls[c].pc = "idfToken"
  /\ LET w == Head(calls[c].work)
         rest == Tail(calls[c].work)
     IN \E r \in GetOutcomes(TokenKey(w.token)) :
          LET idf == inverseDocumentFrequency(calls[c].local, GetterResult(r))
              call == [calls[c] EXCEPT !.failed = @ \/ r.err = "io", !.work = rest]
          IN /\ faultsLeft' = FaultsLeft(r.err)
             /\ inserts' = Append(inserts,
                  [pc |-> "get", token |-> w.token, documentId |-> calls[c].documentId,
                   posting |-> Posting(w, idf), record |-> Undefined])
             /\ calls' = [calls EXCEPT ![c] =
                  IF rest = <<>> THEN Returned(call, Undefined)
                  ELSE [call EXCEPT !.pc = "idfNumDocuments"]]
             /\ completedAdds' = IF rest = <<>> THEN completedAdds + 1 ELSE completedAdds
  /\ UNCHANGED <<store, callsLeft, updatesLeft, added, deleted>>
  /\ UNCHANGED memVars

\* sequence s without its i-th element
Remove(s, i) == SubSeq(s, 1, i - 1) \o SubSeq(s, i + 1, Len(s))

\* _invertedIndexInsert: _invertedIndexGetToken ends; the new record is built
\* and its put issued
InsertGetToken(i) ==
  /\ i \in 1..Len(inserts) /\ inserts[i].pc = "get"
  /\ \E r \in GetOutcomes(TokenKey(inserts[i].token)) :
       /\ faultsLeft' = FaultsLeft(r.err)
       /\ inserts' = [inserts EXCEPT ![i].pc = "set",
            ![i].record = InsertedRecord(GetterResult(r), inserts[i].documentId,
                                         inserts[i].posting)]
  /\ UNCHANGED <<store, calls, callsLeft, updatesLeft, completedAdds, added, deleted>>
  /\ UNCHANGED memVars

\* _invertedIndexInsert: _invertedIndexSetToken ends; an error is logged
InsertSetToken(i) ==
  /\ i \in 1..Len(inserts) /\ inserts[i].pc = "set"
  /\ \E err \in WriteOutcomes :
       /\ faultsLeft' = FaultsLeft(err)
       /\ store' = IF err = "none"
                   THEN StorePut(TokenKey(inserts[i].token), inserts[i].record)
                   ELSE store
  /\ inserts' = Remove(inserts, i)
  /\ UNCHANGED <<calls, callsLeft, updatesLeft, completedAdds, added, deleted>>
  /\ UNCHANGED memVars

\* update(documentId, partialUpdatedDocument): get's read is issued
Update(c, documentId, partial) ==
  /\ CanCall(c) /\ updatesLeft > 0
  /\ calls' = [calls EXCEPT ![c] =
       [Idle EXCEPT !.op = "update", !.pc = "updateGet", !.documentId = documentId,
                    !.partial = partial]]
  /\ callsLeft' = callsLeft - 1
  /\ updatesLeft' = updatesLeft - 1
  /\ UNCHANGED <<store, inserts, faultsLeft, completedAdds, added, deleted>>
  /\ UNCHANGED memVars

\* the key of an update that computes the identifier anew from the merged document
updateKeyOfContent(documentId, newDocument) == DocumentKey(generateDocumentId(newDocument))

\* the key update writes the merged document under
updateKey(documentId, newDocument) == DocumentKey(documentId)

\* update: this.get(documentId) ends (the stored text, null or undefined);
\* newDocument = Object.assign({}, previousDocumentVersion, partialUpdatedDocument)
\* and its put is issued
UpdateGet(c) ==
  /\ calls[c].op = "update" /\ calls[c].pc = "updateGet"
  /\ \E r \in GetOutcomes(DocumentKey(calls[c].documentId)) :
       /\ faultsLeft' = FaultsLeft(r.err)
       /\ calls' = [calls EXCEPT ![c].pc = "updatePut",
                                 ![c].failed = @ \/ r.err = "io",
                                 ![c].local = GetterResult(r),
                                 ![c].document =
                                    ObjectAssign(GetterResult(r), Obj(calls[c].partial))]
  /\ UNCHANGED <<store, inserts, callsLeft, updatesLeft, completedAdds, added, deleted>>
  /\ UNCHANGED memVars

\* update: store.put of JSON.stringify(newDocument) ends; an error is logged
UpdatePut(c) ==
  /\ calls[c].op = "update" /\ calls[c].pc = "updatePut"
  /\ \E err \in WriteOutcomes :
       /\ faultsLeft' = FaultsLeft(err)
       /\ store' = IF err = "none"
                   THEN StorePut(updateKey(calls[c].documentId, calls[c].document),
                                 Str(Stringify(calls[c].document)))
                   ELSE store
       /\ calls' = [calls EXCEPT ![c] = Returned([@ EXCEPT !.failed = @ \/ err = "io"], Undefined)]
  /\ UNCHANGED <<inserts, callsLeft, updatesLeft, completedAdds, added, deleted>>
  /\ UNCHANGED memVars

\* delete(documentId): the del is issued
Delete(c, documentId) ==
  /\ CanCall(c)
  /\ calls' = [calls EXCEPT ![c] =
       [Idle EXCEPT !.op = "delete", !.pc = "del", !.documentId = documentId]]
  /\ callsLeft' = callsLeft - 1
  /\ UNCHANGED <<store, inserts, faultsLeft, updatesLeft, completedAdds, added, deleted>>
  /\ UNCHANGED memVars

\* the store after delete's store.del of the document's key
deleteDocument(documentId) == StoreDel(DocumentKey(documentId))

\* delete: store.del ends; an error is logged
DeleteDel(c) ==
  /\ calls[c].op = "delete" /\ calls[c].pc = "del"
  /\ \E err \in WriteOutcomes :
       /\ faultsLeft' = FaultsLeft(err)
       /\ store' = IF err = "none" THEN deleteDocument(calls[c].documentId) ELSE store
       /\ calls' = [calls EXCEPT ![c] = Returned([@ EXCEPT !.failed = @ \/ err = "io"], Undefined)]
       /\ deleted' = IF err = "none" /\ DocumentKey(calls[c].documentId) \in DOMAIN store
                     THEN deleted \cup {calls[c].documentId} ELSE deleted
  /\ UNCHANGED <<inserts, callsLeft, updatesLeft, completedAdds, added>>
  /\ UNCHANGED memVars

\* get(documentId): the read is issued
Get(c, documentId) ==
  /\ CanCall(c)
  /\ calls' = [calls EXCEPT ![c] =
       [Idle EXCEPT !.op = "get", !.pc = "get", !.documentId = documentId]]
  /\ callsLeft' = callsLeft - 1
  /\ UNCHANGED <<store, inserts, faultsLeft, updatesLeft, completedAdds, added, deleted>>
  /\ UNCHANGED memVars

\* get: store.get ends: the stored text, null when notFound, and undefined
\* after logging any other error
GetGet(c) ==
  /\ calls[c].op = "get" /\ calls[c].pc = "get"
  /\ \E r \in GetOutcomes(DocumentKey(calls[c].documentId)) :
       /\ faultsLeft' = FaultsLeft(r.err)
       /\ calls' = [calls EXCEPT ![c] =
                      Returned([@ EXCEPT !.failed = @ \/ r.err = "io"], GetterResult(r))]
  /\ UNCHANGED <<store, inserts, callsLeft, updatesLeft, completedAdds, added, deleted>>
  /\ UNCHANGED memVars

\* what search() returns
searchResult(query) == Null

\* search(): returns at once
Search(c, query) ==
  /\ CanCall(c)
  /\ calls' = [calls EXCEPT ![c] = Returned([Idle EXCEPT !.op = "search"], searchResult(query))]
  /\ callsLeft' = callsLeft - 1
  /\ UNCHANGED <<store, inserts, faultsLeft, updatesLeft, completedAdds, added, deleted>>
  /\ UNCHANGED memVars

\* addFieldBoosts(): returns null at once
AddFieldBoosts(c) ==
  /\ CanCall(c)
  /\ calls' = [calls EXCEPT ![c] = Returned([Idle EXCEPT !.op = "addFieldBoosts"], Null)]
  /\ callsLeft' = callsLeft - 1
  /\ UNCHANGED <<store, inserts, faultsLeft, updatesLeft, completedAdds, added, deleted>>
  /\ UNCHANGED memVars

\* ------------------------------------------------------------------------
\* index.bak.js: the index held in memory
\* ------------------------------------------------------------------------

\* the property name a value used as an index of this.fieldBoosts stands for
PropertyName(v) == IF v = Undefined THEN StringUndefined.s ELSE Digits(v.n)

\* this.fields[field]: a number, or undefined
FieldId(fs, field) == IF field \in DOMAIN fs THEN Num(fs[field]) ELSE Undefined

\* the registry after a tokenizeFields that leaves this.fieldsCount as it is
RegisterFieldWithoutIncrement(reg, field) ==
  IF field \in DOMAIN reg.fields THEN reg
  ELSE [fields |-> (field :> reg.fieldsCount) @@ reg.fields,
        fieldBoosts |-> (PropertyName(Num(reg.fieldsCount)) :> 1) @@ reg.fieldBoosts,
        fieldsCount |-> reg.fieldsCount]

\* the registry after tokenizeFields met one field of a document
RegisterField(reg, field) ==
  IF field \in DOMAIN reg.fields THEN reg
  ELSE [fields |-> (field :> reg.fieldsCount) @@ reg.fields,
        fieldBoosts |-> IF PropertyName(Num(reg.fieldsCount)) \in DOMAIN reg.fieldBoosts
                           /\ reg.fieldBoosts[PropertyName(Num(reg.fieldsCount))] # 0
                        THEN reg.fieldBoosts
                        ELSE (PropertyName(Num(reg.fieldsCount)) :> 1) @@ reg.fieldBoosts,
        fieldsCount |-> reg.fieldsCount + 1]

RECURSIVE RegisterFields(_, _)
\* the registry after tokenizeFields(document): every field of the document is
\* registered, in the document's order
RegisterFields(reg, document) ==
  IF document = <<>> THEN reg
  ELSE RegisterFields(RegisterField(reg, Head(document).k), Tail(document))

\* inverseDocumentFrequency(term) of the index held in memory
memInverseDocumentFrequency(store_, index, term) ==
  LET numDocuments == Cardinality(DOMAIN store_)
      numDocumentsContainTerm ==
        IF term \in DOMAIN index THEN Cardinality(DOMAIN index[term]) ELSE 0
  IN OnePlusLog(numDocuments, numDocumentsContainTerm + 1)

\* the index after one pass of indexDocument's inner loop
IndexToken(index, store_, fs, documentId, w) ==
  LET posting == <<termFrequency(w.token, w.toks),
                   memInverseDocumentFrequency(store_, index, w.token),
                   fieldLengthNormalization(w.toks),
                   FieldId(fs, w.field)>>
  IN IF w.token \in DOMAIN index
     THEN IF documentId \in DOMAIN index[w.token]
          THEN [index EXCEPT ![w.token][documentId] = Append(@, posting)]
          ELSE [index EXCEPT ![w.token] = (documentId :> <<posting>>) @@ @]
     ELSE (w.token :> (documentId :> <<posting>>)) @@ index

RECURSIVE IndexTokens(_, _, _, _, _)
\* the index after the passes `work` of indexDocument, in order
IndexTokens(index, store_, fs, documentId, work) ==
  IF work = <<>> THEN index
  ELSE IndexTokens(IndexToken(index, store_, fs, documentId, Head(work)),
                   store_, fs, documentId, Tail(work))

\* addDocument(document): store the document under its identifier, then
\* indexDocument: register its fields and index the tokens of its string fields
addDocument(document) ==
  /\ memCallsLeft > 0
  /\ LET documentId == generateDocumentId(document)
         stored == (documentId :> document) @@ documentStore
         reg == RegisterFields([fields |-> fields, fieldBoosts |-> fieldBoosts,
                                fieldsCount |-> fieldsCount], document)
     IN /\ documentStore' = stored
        /\ fields' = reg.fields
        /\ fieldBoosts' = reg.fieldBoosts
        /\ fieldsCount' = reg.fieldsCount
        /\ invertedIndex' =
             IndexTokens(invertedIndex, stored, reg.fields, documentId, IndexWork(document))
  /\ observed' = observed \o
       SelectSeq([i \in 1..Len(document) |-> document[i].k],
                 LAMBDA f : \A j \in 1..Len(observed) : observed[j] # f)
  /\ memCallsLeft' = memCallsLeft - 1
  /\ UNCHANGED <<requested, found>>
  /\ UNCHANGED storeVars

\* this.fieldBoosts after this.fieldBoosts[this.fields[field]] = weight
SetBoost(boosts, fs, field, weight) ==
  (PropertyName(FieldId(fs, field)) :> weight) @@ boosts

RECURSIVE SetBoosts(_, _, _)
SetBoosts(boosts, fs, m) ==
  IF m = <<>> THEN boosts
  ELSE SetBoosts(SetBoost(boosts, fs, Head(m).k, Head(m).v), fs, Tail(m))

\* addFieldBoosts(fieldBoosts)
addFieldBoosts(m) ==
  /\ memCallsLeft > 0
  /\ fieldBoosts' = SetBoosts(fieldBoosts, fields, m)
  /\ requested' = [f \in Keys(m) |-> Prop(m, f)] @@ requested
  /\ memCallsLeft' = memCallsLeft - 1
  /\ UNCHANGED <<documentStore, invertedIndex, fields, fieldsCount, observed, found>>
  /\ UNCHANGED storeVars

\* the factors of the products termScore sums, one product per posting
termScore(postings) ==
  [i \in 1..Len(postings) |->
     [tf |-> postings[i][1], idf |-> postings[i][2], norm |-> postings[i][3],
      boost |-> fieldBoosts[PropertyName(postings[i][4])]]]

\* the documents scoreDocuments gives a score: those with a posting for a token
\* of the query
Scored(tokenizedQuery) ==
  UNION {DOMAIN invertedIndex[tokenizedQuery[i]] :
           i \in {j \in 1..Len(tokenizedQuery) : tokenizedQuery[j] \in DOMAIN invertedIndex}}

\* scoreDocuments(tokenizedQuery): documentId -> the products its score sums,
\* the query's tokens taken in order
scoreDocuments(tokenizedQuery) ==
  [documentId \in Scored(tokenizedQuery) |->
     Concat([i \in 1..Len(tokenizedQuery) |->
       IF tokenizedQuery[i] \in DOMAIN invertedIndex
          /\ documentId \in DOMAIN invertedIndex[tokenizedQuery[i]]
       THEN termScore(invertedIndex[tokenizedQuery[i]][documentId])
       ELSE <<>>])]

\* the orders Object.keys(results).sort(...) may leave the scored documents in:
\* the scores are real numbers the model does not compute, so every order is kept
SortedResults(results) ==
  {s \in [1..Cardinality(DOMAIN results) -> DOMAIN results] :
     \A i, j \in DOMAIN s : i # j => s[i] # s[j]}

\* this.documentStore[key]
StoredDocument(key) ==
  IF key \in DOMAIN documentStore THEN Obj(documentStore[key]) ELSE Undefined

\* queryCoordination(tokenizedQuery, documentId): matchingTerms and the length
\* it is divided by, the quotient being left as the two numbers
queryCoordination(tokenizedQuery, documentId) ==
  [matchingTerms |->
     Cardinality({i \in 1..Len(tokenizedQuery) :
                    /\ tokenizedQuery[i] \in DOMAIN invertedIndex
                    /\ documentId \in DOMAIN invertedIndex[tokenizedQuery[i]]}),
   length |-> Len(tokenizedQuery)]

\* search(query): every score is multiplied by the document's coordination
\* factor, and the result is sortedResults.map(key => this.documentStore[key])
search(query) ==
  /\ memCallsLeft > 0
  /\ LET tokenizedQuery == tokenizeNormalize(query)
         results == scoreDocuments(tokenizedQuery)
     IN \E sortedResults \in SortedResults(results) :
          found' = [asked |-> TRUE, at |-> memCallsLeft - 1, query |-> query,
                    scores |-> results,
                    coordination |-> [documentId \in DOMAIN results |->
                                        queryCoordination(tokenizedQuery, documentId)],
                    result |-> [i \in DOMAIN sortedResults |->
                                  StoredDocument(sortedResults[i])]]
  /\ memCallsLeft' = memCallsLeft - 1
  /\ UNCHANGED <<documentStore, invertedIndex, fields, fieldsCount, fieldBoosts,
                 observed, requested>>
  /\ UNCHANGED storeVars

\* constructor(): everything empty
memInit ==
  /\ documentStore = <<>>
  /\ invertedIndex = <<>>
  /\ fields = <<>>
  /\ fieldsCount = 0
  /\ fieldBoosts = <<>>
  /\ observed = <<>>
  /\ requested = <<>>
  /\ found = [asked |-> FALSE, at |-> 0, query |-> <<>>, scores |-> <<>>,
              coordination |-> <<>>, result |-> <<>>]

\* ------------------------------------------------------------------------
\* Specifications
\* ------------------------------------------------------------------------

\* constructor(storePath): an empty store, nothing called yet
storeInit ==
  /\ store = <<>>
  /\ calls = [c \in Callers |-> Idle]
  /\ inserts = <<>>
  /\ completedAdds = 0
  /\ added = {}
  /\ deleted = {}

\* index.js over a store whose operations do not fail
Init ==
  /\ storeInit
  /\ faultsLeft = 0
  /\ callsLeft = MaxCalls
  /\ updatesLeft = MaxUpdates
  /\ memInit
  /\ memCallsLeft = 0

\* index.js over a store whose operations may fail with an I/O error
InitFaults ==
  /\ storeInit
  /\ faultsLeft = MaxFaults
  /\ callsLeft = MaxFaultCalls
  /\ updatesLeft = MaxUpdates
  /\ memInit
  /\ memCallsLeft = 0

\* index.bak.js
InitMem ==
  /\ storeInit
  /\ faultsLeft = 0
  /\ callsLeft = 0
  /\ updatesLeft = 0
  /\ memInit
  /\ memCallsLeft = MaxMemCalls

\* the steps of the call in progress and of the inserts in flight
Step ==
  \/ \E c \in Callers :
       \/ AddPutDocument(c)
       \/ IncrementGetNumDocuments(c)
       \/ IncrementSetNumDocuments(c)
       \/ IdfGetNumDocuments(c)
       \/ IdfGetToken(c)
       \/ UpdateGet(c)
       \/ UpdatePut(c)
       \/ DeleteDel(c)
       \/ GetGet(c)
  \/ \E i \in 1..Len(inserts) : InsertGetToken(i) \/ InsertSetToken(i)

\* a caller's next public call
Call(c) ==
  \/ \E d \in Documents : Add(c, d)
  \/ \E id \in DocumentIds, p \in Partials : Update(c, id, p)
  \/ \E id \in DocumentIds : Delete(c, id)
  \/ \E id \in DocumentIds : Get(c, id)
  \/ \E q \in Queries : Search(c, q)
  \/ AddFieldBoosts(c)

\* one caller, each call awaited before the next
Next == Step \/ Call(SeqCaller)

\* the methods of the index held in memory, called one after the other
MemNext ==
  \/ \E d \in MemDocuments : addDocument(d)
  \/ \E m \in BoostMaps : addFieldBoosts(m)
  \/ \E q \in Queries : search(q)

Spec == Init /\ [][Next]_vars

SpecFaults == InitFaults /\ [][Next]_vars

SpecMem == InitMem /\ [][MemNext]_vars


\* ------------------------------------------------------------------------
\* Properties of index.js
\* ------------------------------------------------------------------------

\* the sequential caller has no call in progress
Quiet == calls[SeqCaller].pc \in {"idle", "done"}

\* the document count as _incrementNumDocuments reads it: the number stored
\* under DOCUMENT_COUNT_KEY, and 0 when the key is absent
PersistedCount ==
  IF DOCUMENT_COUNT_KEY \in DOMAIN store THEN ToNumber(store[DOCUMENT_COUNT_KEY]) ELSE Num(0)

\* the identifiers the document store holds a document for
StoredIds == {k[2] : k \in {x \in DOMAIN store : x[1] = DOCUMENT_STORE_KEY_PREFIX}}

\* C1: with add calls made one after another and no failing store operation,
\* the persisted document count is 0 before any add and k once k adds have
\* returned.
C1_CountIsCompletedAdds == Quiet => PersistedCount = Num(completedAdds)

\* an array of documents, as a search result is supposed to be
IsArray(v) == v.t = "array"

\* C2: once delete(id) has removed a document and no add has written it again,
\* get(id) returns null (NotFound), and search returns a sequence of documents
\* that holds neither the document nor a placeholder (null, undefined) for it.
C2_DeletedIsGone ==
  \A id \in deleted \cap {generateDocumentId(d) : d \in added} :
    LET call == calls[SeqCaller]
    IN /\ (call.pc = "done" /\ call.op = "get" /\ call.documentId = id)
            => call.result = Null
       /\ (call.pc = "done" /\ call.op = "search")
            => /\ IsArray(call.result)
               /\ \A i \in 1..Len(call.result.items) :
                    /\ call.result.items[i] \notin {Null, Undefined}
                    /\ \A d \in Documents :
                         generateDocumentId(d) = id => call.result.items[i] # Obj(d)

\* the orders in which the properties of an object may be written
Orders(props) ==
  {[i \in 1..Len(props) |-> props[o[i]]] :
     o \in {f \in [1..Len(props) -> 1..Len(props)] : \A i, j \in DOMAIN f : i # j => f[i] # f[j]}}

\* the texts of the document that has p's value for every field of p, d's value
\* for every other field of d, and no other field
MergedTexts(d, p) == {Str(Stringify(o)) : o \in Orders(AssignProps(d, p))}

\* an update call that has returned, having read the stored text of document d
UpdatedOver(call, d) ==
  /\ call.pc = "done" /\ call.op = "update"
  /\ call.local = Str(Stringify(d))

\* C3: after update(id, p) of a document d added under id, the document stored
\* under id has p's value for every field of p, d's value for every other field
\* of d, and no other field.
C3_UpdateMergesFields ==
  \A d \in Documents :
    UpdatedOver(calls[SeqCaller], d)
      => /\ DocumentKey(calls[SeqCaller].documentId) \in DOMAIN store
         /\ store[DocumentKey(calls[SeqCaller].documentId)]
              \in MergedTexts(d, calls[SeqCaller].partial)

\* C4: update(id, p) of an identifier the store holds no document for fails
\* with NotFound and creates no document under id.
C4_UpdateOfMissingFails ==
  LET call == calls[SeqCaller]
  IN (call.pc = "done" /\ call.op = "update" /\ call.local = Null)
       => /\ call.outcome = "rejected"
          /\ DocumentKey(call.documentId) \notin DOMAIN store

FieldTokens(document) ==
  UNION {{f.toks[i] : i \in 1..Len(f.toks)} :
           f \in {tokenizeFieldsOfStrings(document)[j] :
                    j \in 1..Len(tokenizeFieldsOfStrings(document))}}

\* the stored documents a query has a token in common with, stopwords left out
Matching(query) ==
  LET qt == tokenizeNormalize(query)
  IN {id \in DOMAIN documentStore :
        \E i \in 1..Len(qt) :
          qt[i] \notin stopwords /\ qt[i] \in FieldTokens(documentStore[id])}

\* the search whose result `found` holds was the last call made
JustSearched == found.asked /\ found.at = memCallsLeft

\* C6: after any sequence of adds, search(q) returns exactly the stored
\* documents that have a non-stopword token of q in a string field, each once;
\* an empty query, and a query with no indexed token, return the empty sequence.
C6_SearchReturnsMatches ==
  JustSearched
    => /\ Len(found.result) = Cardinality(Matching(found.query))
       /\ {found.result[i] : i \in 1..Len(found.result)}
            = {Obj(documentStore[id]) : id \in Matching(found.query)}

\* a search returned two of three stored documents
C6_Witness ==
  /\ JustSearched
  /\ Len(found.result) = 2
  /\ Cardinality(DOMAIN documentStore) = 3

\* C7: every field name given to setFieldBoosts is registered and the weight
\* last given for it is the boost stored under its id, so that postings of that
\* field are scored with it.
C7_BoostsRegisterAndStore ==
  \A f \in DOMAIN requested :
    /\ f \in DOMAIN fields
    /\ fieldBoosts[PropertyName(FieldId(fields, f))] = requested[f]

\* C8: the registry maps the field names met to the ids 0..n-1 in the order in
\* which they were first met: distinct names have distinct ids, and an id once
\* given never changes.
C8_FieldIdsInOrderOfFirstUse ==
  /\ DOMAIN fields = {observed[i] : i \in 1..Len(observed)}
  /\ fieldsCount = Len(observed)
  /\ \A i \in 1..Len(observed) : fields[observed[i]] = i - 1
  /\ \A f, g \in DOMAIN fields : f # g => fields[f] # fields[g]

\* title, body, title, tags were met in this order
C8_Witness ==
  /\ observed = <<FTitle, FBody, FTags>>
  /\ fields[FTitle] = 0 /\ fields[FBody] = 1 /\ fields[FTags] = 2
  /\ Cardinality(DOMAIN documentStore) = 3

\* ------------------------------------------------------------------------
\* Properties of index.js, continued
\* ------------------------------------------------------------------------

\* C9: when a store operation of add, update, delete or get fails with an I/O
\* error, the call does not return normally: its promise is rejected.
C9_StoreErrorsSurface ==
  \A c \in Callers :
    (calls[c].pc = "done" /\ calls[c].failed
       /\ calls[c].op \in {"add", "update", "delete", "get"})
      => calls[c].outcome = "rejected"

\* caller c takes a step of an update or a delete call
UpdateOrDeleteStep(c) ==
  /\ calls'[c] # calls[c]
  /\ calls'[c].op \in {"update", "delete"}

\* C10: no step of update(id, p) or delete(id) changes the store at any key
\* but the document-store key of id: the inverted index, the document count and
\* every other document stay as they are, and update writes under id itself.
C10_UpdateDeleteFrame ==
  [][\A c \in Callers :
       UpdateOrDeleteStep(c)
         => \A k \in (DOMAIN store \cup DOMAIN store') \ {DocumentKey(calls'[c].documentId)} :
              k \in DOMAIN store /\ k \in DOMAIN store' /\ store'[k] = store[k]]_vars

\* an update wrote a document while the index held postings and a document
\* had been deleted
C10_Witness ==
  /\ calls[SeqCaller].pc = "done" /\ calls[SeqCaller].op = "update"
  /\ DocumentKey(calls[SeqCaller].documentId) \in DOMAIN store
  /\ TokenKey(<<"c">>) \in DOMAIN store
  /\ deleted # {}

\* ------------------------------------------------------------------------
\* index.js called by several callers at once
\* ------------------------------------------------------------------------

\* every caller makes its calls without waiting for the others: the calls
\* interleave at their store operations
ConcurrentNext == Step \/ \E c \in Callers : Call(c)

SpecConcurrent == Init /\ [][ConcurrentNext]_vars

\* no caller has a call in progress
AllQuiet == \A c \in Callers : calls[c].pc \in {"idle", "done"}

\* C11: once add calls that ran concurrently have all returned, no store
\* operation having failed, the persisted document count is the number of add
\* calls: no increment is lost.
C11_NoLostIncrement ==
  (AllQuiet /\ \A c \in Callers : calls[c].op = "add")
    => PersistedCount = Num(completedAdds)

\* the keys of the store that hold the record of a token
TokenKeys(st) == {k \in DOMAIN st : k[1] = INVERTED_INDEX_KEY_PREFIX}

\* C12: a posting written for (token, documentId) stays in the token's record
\* whatever is inserted later: every step leaves every token record with the
\* documents it had, each with the postings it had, in front of any new ones.
C12_PostingsStay ==
  [][\A k \in TokenKeys(store) :
       /\ k \in TokenKeys(store')
       /\ \A d \in DOMAIN store[k].rec :
            /\ d \in DOMAIN store'[k].rec
            /\ Len(store'[k].rec[d]) >= Len(store[k].rec[d])
            /\ SubSeq(store'[k].rec[d], 1, Len(store[k].rec[d])) = store[k].rec[d]]_vars

\* C13: when an add call computes an index-time IDF, its document has been
\* written to the store and the count has been incremented for it: the N the
\* indexing pass has read counts this document along with the adds before it.
C13_IndexingReadsIncrementedCount ==
  LET call == calls[SeqCaller]
  IN (call.op = "add" /\ call.pc = "idfToken")
       => /\ DocumentKey(call.documentId) \in DOMAIN store
          /\ ToNumber(call.local) = Num(completedAdds + 1)

\* caller c's add, its document written, ends the write of the count
CountWriteEnds(c) ==
  /\ calls[c].op = "add" /\ calls[c].pc = "setNumDocuments"
  /\ calls'[c].pc # "setNumDocuments"

\* caller c's add returns at the write of its document
DocumentWriteFails(c) ==
  /\ calls[c].op = "add" /\ calls[c].pc = "putDocument"
  /\ calls'[c].pc = "done"

\* C14: add's persist-and-count step is all or nothing, also when a store
\* operation fails: an add whose document was written leaves the count one
\* higher when its count write has ended, and an add whose document write
\* failed leaves both the document store and the count as they were.
C14_PersistAndCountAtomic ==
  [][\A c \in Callers :
       /\ CountWriteEnds(c)
            => /\ DocumentKey(calls[c].documentId) \in DOMAIN store'
               /\ PersistedCount' = JsPlus(PersistedCount, 1)
       /\ DocumentWriteFails(c)
            => /\ StoredIds' = StoredIds
               /\ PersistedCount' = PersistedCount]_vars

\* ------------------------------------------------------------------------
\* Properties of index.bak.js, continued
\* ------------------------------------------------------------------------

\* the postings the index held for (token, documentId)
PostingsOf(index, token, documentId) ==
  IF token \in DOMAIN index /\ documentId \in DOMAIN index[token]
  THEN index[token][documentId] ELSE <<>>

\* the postings a step has appended for (token, documentId)
NewPostings(token, documentId) ==
  SubSeq(PostingsOf(invertedIndex', token, documentId),
         Len(PostingsOf(invertedIndex, token, documentId)) + 1,
         Len(PostingsOf(invertedIndex', token, documentId)))

\* the documents other than documentId that held a posting for token
OtherHolders(index, token, documentId) ==
  IF token \in DOMAIN index THEN DOMAIN index[token] \ {documentId} ELSE {}

\* C15: every posting written while a document d is indexed records, for its
\* token t, the IDF of N and the number of documents other than d that held a
\* posting for t before; so the postings of one add for one token all record
\* the same IDF, also when t occurs several times in d.
C15_IdfOfDocumentFrequencyBefore ==
  [][\A d \in MemDocuments :
       /\ generateDocumentId(d) \in DOMAIN documentStore'
       /\ generateDocumentId(d) \notin DOMAIN documentStore
       => \A t \in DOMAIN invertedIndex' :
              LET new == NewPostings(t, generateDocumentId(d))
                  df == Cardinality(OtherHolders(invertedIndex, t, generateDocumentId(d)))
              IN \A i \in 1..Len(new) :
                   new[i][2] = OnePlusLog(Cardinality(DOMAIN documentStore'), df + 1)]_vars

\* the distinct tokens of a query
QueryTokens(query) ==
  {tokenizeNormalize(query)[i] : i \in 1..Len(tokenizeNormalize(query))}

\* the distinct tokens of a query the index holds a posting of documentId for
MatchedTokens(query, documentId) ==
  {t \in QueryTokens(query) : PostingsOf(invertedIndex, t, documentId) # <<>>}

\* C16: the coordination factor search applies to the score of a document is
\* (distinct tokens of the query with a posting for the document) / (distinct
\* tokens of the query), also when the query repeats a token.  The quotients
\* are compared by cross multiplication.
C16_CoordinationOfDistinctTokens ==
  JustSearched
    => \A documentId \in DOMAIN found.coordination :
         found.coordination[documentId].matchingTerms
             * Cardinality(QueryTokens(found.query))
           = Cardinality(MatchedTokens(found.query, documentId))
               * found.coordination[documentId].length

\* C18: indexing again a document that was added before changes nothing: every
\* step leaves the posting sequence of every (token, documentId) the index
\* holds as it was.
C18_ReindexingIdempotent ==
  [][\A t \in DOMAIN invertedIndex :
       \A d \in DOMAIN invertedIndex[t] :
         PostingsOf(invertedIndex', t, d) = invertedIndex[t][d]]_vars

\* ------------------------------------------------------------------------
\* Properties of index.js: the postings
\* ------------------------------------------------------------------------

\* C17: every posting in the inverted index carries a field id after its three
\* factors: it is a tuple (termFrequency, inverseDocumentFrequency,
\* fieldLengthNormalization, fieldId).
C17_PostingsCarryFieldId ==
  \A k \in TokenKeys(store) :
    \A d \in DOMAIN store[k].rec :
      \A i \in 1..Len(store[k].rec[d]) : Len(store[k].rec[d][i]) = 4

\* the postings the store holds for (token, documentId)
StoredPostings(token, documentId) ==
  IF TokenKey(token) \in DOMAIN store /\ documentId \in DOMAIN store[TokenKey(token)].rec
  THEN store[TokenKey(token)].rec[documentId] ELSE <<>>

\* the number of times a token occurs in the string fields of a document
Occurrences(token, document) ==
  LET td == tokenizeFieldsOfStrings(document)
  IN CountOf(token, Concat([i \in 1..Len(td) |-> td[i].toks]))

\* the tokens of the texts the callers pass
Tokens == UNION {FieldTokens(d) : d \in Documents}

\* C19: no stopword is a key of the inverted index; and once an add of a
\* document d, the only add made so far, has returned, the index holds for each
\* token t that is no stopword as many postings of (t, d) as t occurs in the
\* string fields of d, and none for a stopword.
C19_OnePostingPerOccurrence ==
  /\ \A k \in TokenKeys(store) : k[2] \notin stopwords
  /\ \A d \in Documents :
       LET call == calls[SeqCaller]
       IN (call.op = "add" /\ call.pc = "done" /\ completedAdds = 1
             /\ call.documentId = generateDocumentId(d))
            => \A t \in Tokens :
                 Len(StoredPostings(t, call.documentId))
                   = IF t \in stopwords THEN 0 ELSE Occurrences(t, d)

====
